---- MODULE Spec2Model ----
(***************************************************************************)
(* Request/response contract layer of the Raven mailer SDK: the Client     *)
(* (HTTP transport with timeout and error normalisation), normalizeError,  *)
(* and the resource services (Emails, ApiKeys, Broadcasts, Domains, Batch) *)
(* that validate, render, dispatch through the Client and map the result   *)
(* into a {data, error} envelope.                                          *)
(***************************************************************************)
EXTENDS Integers, Sequences, FiniteSets, TLC

(***************************************************************************)
(* JavaScript values.  A value is a record                                 *)
(*   kind   : "undefined" | "null" | "bool" | "num" | "str" | "obj"        *)
(*   cls    : the constructor of an object ("" for a primitive)            *)
(*   v      : the text of a primitive ("" for an object)                   *)
(*   props  : the properties of an object the code reads, own and          *)
(*            inherited alike, each with the kind and text of its value    *)
(*   issues : the messages of a ZodError's errors array                    *)
(***************************************************************************)
F(kind, v) == [kind |-> kind, v |-> v]

Absent == F("absent", "")

NoProps == [k \in {} |-> Absent]

\* x.key: Absent when the object has no such property
Prop(x, key) == IF key \in DOMAIN x.props THEN x.props[key] ELSE Absent

Prim(kind, v) ==
    [kind |-> kind, cls |-> "", v |-> v, props |-> NoProps, issues |-> <<>>]

JsNull == Prim("null", "")

JsUndefined == Prim("undefined", "")

JsStr(s) == Prim("str", s)

JsNum(s) == Prim("num", s)

Obj(cls, props) ==
    [kind |-> "obj", cls |-> cls, v |-> "", props |-> props, issues |-> <<>>]

\* {name, message}: the object literals the code builds for an error.
ErrorInfo(name, message) ==
    Obj("Object", (("name" :> F("str", name)) @@
                ("message" :> F("str", message))))

\* new cls(message): name is read from the prototype, message is own.
ErrorInstance(cls, name, message) ==
    Obj(cls, (("name" :> F("str", name)) @@
                ("message" :> F("str", message))))

JsError(message) == ErrorInstance("Error", "Error", message)

TypeErrorOf(message) == ErrorInstance("TypeError", "TypeError", message)

SyntaxErrorOf(message) == ErrorInstance("SyntaxError", "SyntaxError", message)

\* What controller.abort() makes fetch reject with.
AbortError ==
    ErrorInstance("DOMException", "AbortError", "This operation was aborted")

\* A fetch body stream that ran into its own deadline.
TimeoutDomError ==
    ErrorInstance("DOMException", "TimeoutError", "The operation timed out")

\* ZodError: its message is the JSON text of the issues, left abstract here.
ZodError(msgs) ==
    [kind |-> "obj", cls |-> "ZodError", v |-> "",
     props |-> (("name" :> F("str", "ZodError")) @@
                ("message" :> F("str", "<zod issues>"))),
     issues |-> msgs]

\* value of a property as a value of its own (nested properties are not kept)
Lift(f) ==
    IF f.kind = "absent" THEN JsUndefined
    ELSE IF f.kind = "obj"
         THEN [kind |-> "obj", cls |-> "Object", v |-> f.v,
               props |-> NoProps, issues |-> <<>>]
         ELSE Prim(f.kind, f.v)

\* JavaScript truthiness: !!x
TruthyText(kind, v) ==
    CASE kind = "obj"  -> TRUE
      [] kind = "bool" -> v = "true"
      [] kind = "num"  -> v \notin {"0", "NaN"}
      [] kind = "str"  -> v # ""
      [] OTHER         -> FALSE

Truthy(x) == TruthyText(x.kind, x.v)

\* x == null in the envelope sense: the JSON/JS null
IsNull(x) == x.kind = "null"

\* x instanceof Error
InstanceOfError(x) ==
    x.kind = "obj" /\
    x.cls \in {"Error", "TypeError", "SyntaxError", "DOMException", "ZodError"}

\* x?.key: undefined when x is null or undefined, else the property
OptProp(x, key) ==
    IF x.kind \in {"null", "undefined"} THEN JsUndefined
    ELSE IF x.kind = "obj" THEN Lift(Prop(x, key))
    ELSE JsUndefined

\* a || b
OrElse(a, b) == IF Truthy(a) THEN a ELSE b

Envelope(data, error) == [data |-> data, error |-> error]

RAVEN_ERROR_CODES ==
    {"missing_required_field", "invalid_access", "invalid_parameter",
     "invalid_region", "rate_limit_exceeded", "missing_api_key",
     "invalid_api_key", "invalid_from_address", "validation_error",
     "not_found", "method_not_allowed", "request_timeout",
     "application_error", "internal_server_error"}

\* Join keeping the first message only
JoinFirst(msgs) == IF msgs = <<>> THEN "" ELSE msgs[1]

\* msgs.join(", ")
RECURSIVE Join(_)
Join(msgs) ==
    IF msgs = <<>> THEN ""
    ELSE IF Len(msgs) = 1 THEN msgs[1]
    ELSE msgs[1] \o ", " \o Join(Tail(msgs))

isRavenErrorResponse(value) ==
    IF value.kind # "obj" THEN FALSE
    ELSE Prop(value, "message").kind = "str" /\ Prop(value, "name").kind = "str"

normalizeError(error) ==
    IF error.cls = "ZodError"
    THEN ErrorInfo("validation_error", Join(error.issues))
    ELSE IF isRavenErrorResponse(error) THEN error
    ELSE IF InstanceOfError(error)
         THEN ErrorInfo("application_error", Prop(error, "message").v)
         ELSE ErrorInfo("application_error", "Unknown error")

(***************************************************************************)
(* Response bodies the remote side can send, as raw text, and JSON.parse.  *)
(***************************************************************************)
BodyEmpty == ""

BodyHtml == "<html>Bad Gateway</html>"

BodyNull == "null"

BodyZero == "0"

BodyNumber == "42"

BodyString == "\"oops\""

BodyEmptyObject == "{}"

BodyNotFound == "{\"name\":\"not_found\",\"message\":\"Resource not found\"}"

BodyTimeout == "{\"name\":\"request_timeout\",\"message\":\"Upstream timed out\"}"

BodyUnknownCode == "{\"name\":\"teapot\",\"message\":\"short and stout\"}"

BodyNumericName == "{\"name\":404,\"message\":\"Resource not found\"}"

BodyMessageOnly == "{\"message\":\"no name\"}"

BodyApiKey == "{\"apiKey\":{\"id\":1}}"

BodyBroadcast == "{\"broadcast\":{\"id\":1}}"

BodyDomain == "{\"domain\":{\"id\":1}}"

BodyFalsyWrapped == "{\"apiKey\":0,\"broadcast\":\"\",\"domain\":false}"

BodyQueued == "{\"idempotencyKey\":\"k1\"}"

BodySuccess == "{\"success\":true,\"cancelled_at\":\"2024-01-01\"}"

BodyBatchStatus ==
    "{\"batch_id\":\"b1\",\"status\":\"COMPLETED\",\"total_emails\":2,\"processed\":2,\"successful\":2,\"failed\":0,\"created_at\":\"2024-01-01\"}"

BodyBadBatchStatus == "{\"batch_id\":\"b1\",\"status\":\"UNKNOWN\"}"

RawBodies ==
    {BodyEmpty, BodyHtml, BodyNull, BodyZero, BodyNumber, BodyString,
     BodyEmptyObject, BodyNotFound, BodyTimeout, BodyUnknownCode, BodyNumericName,
     BodyMessageOnly, BodyApiKey, BodyBroadcast, BodyDomain, BodyFalsyWrapped,
     BodyQueued,
     BodySuccess, BodyBatchStatus, BodyBadBatchStatus}

Parsed(val) == [ok |-> TRUE, val |-> val]

ParseFailure(message) == [ok |-> FALSE, val |-> SyntaxErrorOf(message)]

ObjectOf(props) == Obj("Object", props)

\* JSON.parse(raw): the value, or the SyntaxError it throws
JSONParse(raw) ==
    CASE raw = BodyEmpty -> ParseFailure("Unexpected end of JSON input")
      [] raw = BodyHtml -> ParseFailure("Unexpected token < in JSON at position 0")
      [] raw = BodyNull -> Parsed(JsNull)
      [] raw = BodyZero -> Parsed(JsNum("0"))
      [] raw = BodyNumber -> Parsed(JsNum("42"))
      [] raw = BodyString -> Parsed(JsStr("oops"))
      [] raw = BodyEmptyObject -> Parsed(ObjectOf(NoProps))
      [] raw = BodyNotFound ->
            Parsed(ObjectOf((("name" :> F("str", "not_found")) @@
                ("message" :> F("str", "Resource not found")))))
      [] raw = BodyTimeout ->
            Parsed(ObjectOf((("name" :> F("str", "request_timeout")) @@
                ("message" :> F("str", "Upstream timed out")))))
      [] raw = BodyUnknownCode ->
            Parsed(ObjectOf((("name" :> F("str", "teapot")) @@
                ("message" :> F("str", "short and stout")))))
      [] raw = BodyNumericName ->
            Parsed(ObjectOf((("name" :> F("num", "404")) @@
                ("message" :> F("str", "Resource not found")))))
      [] raw = BodyMessageOnly ->
            Parsed(ObjectOf((("message" :> F("str", "no name")))))
      [] raw = BodyApiKey ->
            Parsed(ObjectOf((("apiKey" :> F("obj", "{id:1}")))))
      [] raw = BodyBroadcast ->
            Parsed(ObjectOf((("broadcast" :> F("obj", "{id:1}")))))
      [] raw = BodyDomain ->
            Parsed(ObjectOf((("domain" :> F("obj", "{id:1}")))))
      [] raw = BodyFalsyWrapped ->
            Parsed(ObjectOf((("apiKey" :> F("num", "0")) @@
                ("broadcast" :> F("str", "")) @@
                ("domain" :> F("bool", "false")))))
      [] raw = BodyQueued ->
            Parsed(ObjectOf((("idempotencyKey" :> F("str", "k1")))))
      [] raw = BodySuccess ->
            Parsed(ObjectOf((("success" :> F("bool", "true")) @@
                ("cancelled_at" :> F("str", "2024-01-01")))))
      [] raw = BodyBatchStatus ->
            Parsed(ObjectOf((("batch_id" :> F("str", "b1")) @@
                ("status" :> F("str", "COMPLETED")) @@
                ("total_emails" :> F("num", "2")) @@
                ("processed" :> F("num", "2")) @@
                ("successful" :> F("num", "2")) @@
                ("failed" :> F("num", "0")) @@
                ("created_at" :> F("str", "2024-01-01")))))
      [] raw = BodyBadBatchStatus ->
            Parsed(ObjectOf((("batch_id" :> F("str", "b1")) @@
                ("status" :> F("str", "UNKNOWN")))))

\* HTTP statuses the remote side answers with; response.ok is 200..299
Statuses == {200, 404}

ResponseOk(status) == status \in 200..299

(***************************************************************************)
(* Client (the Transport): configuration and fetchRequest.                 *)
(***************************************************************************)
DEFAULT_BASE_URL == "http://localhost:3000"

DEFAULT_TIMEOUT == 10000

\* version, imported from package.json
SDK_VERSION == "<version>"

\* a bag of headers maps a header name to its value; a value is the sequence
\* of the parts of the template literal that builds it
NoHeaders == [n \in {} |-> <<>>]

Header(name, value) == name :> value

\* { Authorization, "Content-Type", "X-SDK-Version" } of the constructor
FixedHeaders(key) ==
    Header("Authorization", <<"Bearer ", key>>) @@
    Header("Content-Type", <<"application/json">>) @@
    Header("X-SDK-Version", <<"raven-sdk:", SDK_VERSION>>)

\* the options Clients are constructed with; an option is <<>> when absent
\* and <<value>> when given
ClientOptionsGiven ==
    {[baseUrl |-> <<>>, timeout |-> <<>>, defaultHeaders |-> <<>>],
     [baseUrl |-> <<"https://api.raven.test">>, timeout |-> <<2500>>,
      defaultHeaders |-> <<Header("X-Custom", <<"v">>)>>]}

\* ClientHeaders leaving the defaultHeaders out
ClientHeadersFixedOnly(key, options) == FixedHeaders(key)

\* new Headers({ Authorization, ..., ...options.defaultHeaders }): a later
\* entry of the object literal replaces an earlier one of the same name
ClientHeaders(key, options) ==
    (IF options.defaultHeaders = <<>> THEN NoHeaders
     ELSE options.defaultHeaders[1]) @@ FixedHeaders(key)

\* the keys Clients are constructed with: a usual key, the shortest valid
\* key, a key one character short, a key of another prefix, the empty key
ApiKeysGiven ==
    {"rk_live_0123456789", "rk_1234567", "rk_123456", "sk_live_0123456789", ""}

\* the characters of a key
KeyChars(key) ==
    CASE key = "rk_live_0123456789" ->
           <<"r", "k", "_", "l", "i", "v", "e", "_",
             "0", "1", "2", "3", "4", "5", "6", "7", "8", "9">>
      [] key = "rk_1234567" -> <<"r", "k", "_", "1", "2", "3", "4", "5", "6", "7">>
      [] key = "rk_123456" -> <<"r", "k", "_", "1", "2", "3", "4", "5", "6">>
      [] key = "sk_live_0123456789" ->
           <<"s", "k", "_", "l", "i", "v", "e", "_",
             "0", "1", "2", "3", "4", "5", "6", "7", "8", "9">>
      [] key = "" -> <<>>

\* key.startsWith(prefix)
StartsWith(chars, prefix) ==
    Len(chars) >= Len(prefix) /\ SubSeq(chars, 1, Len(prefix)) = prefix

MIN_KEY_LENGTH == 10

\* one check of apiKeySchema: its message when the check fails
KeyIssue(failed, message) == IF failed THEN <<message>> ELSE <<>>

\* KeyIssues without the check of the length
KeyIssuesNoLength(key) ==
    LET chars == KeyChars(key)
    IN  KeyIssue(Len(chars) < 1, "API key cannot be empty") \o
        KeyIssue(~StartsWith(chars, <<"r", "k", "_">>),
                 "API key must start with 'rk_'")

\* apiKeySchema.parse(key): the messages of the issues, in order; every
\* check runs, whatever the checks before it found
KeyIssues(key) ==
    LET chars == KeyChars(key)
    IN  KeyIssue(Len(chars) < 1, "API key cannot be empty") \o
        KeyIssue(~StartsWith(chars, <<"r", "k", "_">>),
                 "API key must start with 'rk_'") \o
        KeyIssue(Len(chars) < MIN_KEY_LENGTH,
                 "API key must be at least 10 characters long")

RECURSIVE Bullets(_)
\* errors.map(e => `\u2022 ${e.message}`).join("\n"); the bullet character is
\* written \u2022 here
Bullets(msgs) ==
    IF msgs = <<>> THEN ""
    ELSE "\\u2022 " \o msgs[1] \o
         (IF Len(msgs) = 1 THEN "" ELSE "\n" \o Bullets(Tail(msgs)))

\* the message of the Error the constructor throws
InvalidKeyMessage(msgs) == "Invalid API key:\n" \o Bullets(msgs)

\* new Client(key, options): the fields fetchRequest reads
ClientOf(key, options) ==
    [key |-> key,
     baseUrl |-> IF options.baseUrl = <<>> THEN DEFAULT_BASE_URL
                 ELSE options.baseUrl[1],
     timeout |-> IF options.timeout = <<>> THEN DEFAULT_TIMEOUT
                 ELSE options.timeout[1],
     headers |-> ClientHeaders(key, options)]

\* what the model keeps where no Client was constructed
NoClient == [key |-> "", baseUrl |-> "", timeout |-> 0, headers |-> NoHeaders]

\* the RequestInit a Client method hands to fetchRequest:
\* { method, body, ...options }; delete takes no options
RequestInitOf(method, options) ==
    [method |-> method,
     headers |-> IF method = "DELETE" THEN NoHeaders ELSE options]

\* FetchInitOf spreading the caller's options last:
\* { headers: this.headers, signal: controller.signal, ...options }
FetchInitOfCallerLast(cl, init) ==
    [method |-> init.method, headers |-> init.headers @@ cl.headers]

\* the init fetchRequest hands to fetch:
\* { ...options, headers: this.headers, signal: controller.signal }
FetchInitOf(cl, init) ==
    [method |-> init.method, headers |-> cl.headers]

TimeoutEnvelope(timeout) ==
    Envelope(JsNull,
             ErrorInfo("request_timeout",
                       "Request timed out after " \o ToString(timeout) \o "ms"))

GenericErrorEnvelope ==
    Envelope(JsNull,
             ErrorInfo("internal_server_error", "An unexpected error occurred"))

\* CatchEnvelope telling a timeout by the name "TimeoutError"
CatchEnvelopeByTimeoutName(err, timeout) ==
    IF err.cls = "DOMException" /\ Prop(err, "name") = F("str", "TimeoutError")
    THEN TimeoutEnvelope(timeout)
    ELSE Envelope(JsNull,
                  ErrorInfo("internal_server_error",
                            IF InstanceOfError(err)
                            THEN Prop(err, "message").v
                            ELSE "Unknown error"))

\* CatchEnvelope dropping the message of the failure
CatchEnvelopeGeneric(err, timeout) ==
    IF err.cls = "DOMException" /\ Prop(err, "name") = F("str", "AbortError")
    THEN TimeoutEnvelope(timeout)
    ELSE GenericErrorEnvelope

\* CatchEnvelope taking every Error instance for the timer's abort
CatchEnvelopeAnyError(err, timeout) ==
    IF InstanceOfError(err) THEN TimeoutEnvelope(timeout)
    ELSE Envelope(JsNull, ErrorInfo("internal_server_error", "Unknown error"))

\* the catch block of fetchRequest
CatchEnvelope(err, timeout) ==
    IF err.cls = "DOMException" /\ Prop(err, "name") = F("str", "AbortError")
    THEN TimeoutEnvelope(timeout)
    ELSE Envelope(JsNull,
                  ErrorInfo("internal_server_error",
                            IF InstanceOfError(err)
                            THEN Prop(err, "message").v
                            ELSE "Unknown error"))

\* ErrorBodyEnvelope with no inner try/catch: the SyntaxError reaches the
\* catch block of fetchRequest
ErrorBodyEnvelopeUncaught(raw) ==
    LET parsed == JSONParse(raw)
    IN  IF parsed.ok THEN Envelope(JsNull, parsed.val)
        ELSE Envelope(JsNull,
                      ErrorInfo("internal_server_error", Prop(parsed.val, "message").v))

\* ErrorBodyEnvelope handing the parsed body back as data as well
ErrorBodyEnvelopeAsData(raw) ==
    LET parsed == JSONParse(raw)
    IN  IF parsed.ok THEN Envelope(parsed.val, parsed.val)
        ELSE GenericErrorEnvelope

\* if (!response.ok) { ... }: the body text was read as raw
ErrorBodyEnvelope(raw) ==
    LET parsed == JSONParse(raw)
    IN  IF parsed.ok THEN Envelope(JsNull, parsed.val)
        ELSE GenericErrorEnvelope

\* SuccessBodyEnvelope swallowing the parse failure
SuccessBodyEnvelopeSwallowed(raw, timeout) ==
    LET parsed == JSONParse(raw)
    IN  IF parsed.ok THEN Envelope(parsed.val, JsNull)
        ELSE Envelope(JsNull, JsNull)

\* SuccessBodyEnvelope answering a parse failure with the generic envelope
SuccessBodyEnvelopeGeneric(raw, timeout) ==
    LET parsed == JSONParse(raw)
    IN  IF parsed.ok THEN Envelope(parsed.val, JsNull)
        ELSE GenericErrorEnvelope

\* const data = await response.json(); return { data, error: null }
SuccessBodyEnvelope(raw, timeout) ==
    LET parsed == JSONParse(raw)
    IN  IF parsed.ok THEN Envelope(parsed.val, JsNull)
        ELSE CatchEnvelope(parsed.val, timeout)

\* what fetchRequest returns once the body of the response has been read
ResponseEnvelope(status, raw, timeout) ==
    IF ~ResponseOk(status) THEN ErrorBodyEnvelope(raw)
    ELSE SuccessBodyEnvelope(raw, timeout)

\* what fetch() can reject with when no timer aborted it; an AbortError comes
\* only from the call's own signal (signal: controller.signal replaces any
\* signal of the caller), which only the call's timer aborts
FetchErrors ==
    {TypeErrorOf("fetch failed"), JsStr("socket hang up"), TimeoutDomError}

\* what reading the body (response.text(), response.json()) can reject with
BodyErrors == {TypeErrorOf("terminated")}

(***************************************************************************)
(* Resource operations.  Each row says what the operation's code does:     *)
(*   schema    : a validation schema is defined for the operation          *)
(*   validates : "zod" the code calls schema.parse, "id" it checks the id  *)
(*               by hand, "none" it checks nothing before dispatching      *)
(*   template  : "none"; "inline" the render failure is turned into an     *)
(*               envelope where it is caught; "rethrow" it is rethrown as  *)
(*               a new Error to the operation's catch                      *)
(*   fallback  : the message used when the renderer rejects with a value   *)
(*               that is no Error                                          *)
(*   method    : the Client method the operation calls                     *)
(*   map       : how the Client's envelope becomes the operation's         *)
(*   wrapper   : the key unwrapped, for map = "wrapper"                    *)
(***************************************************************************)
Row(name, schema, validates, template, fallback, method, map, wrapper) ==
    [name |-> name, schema |-> schema, validates |-> validates,
     template |-> template, fallback |-> fallback, method |-> method,
     map |-> map, wrapper |-> wrapper]

ClientOps ==
    {Row("Client.get", FALSE, "none", "none", "", "GET", "passthrough", ""),
     Row("Client.post", FALSE, "none", "none", "", "POST", "passthrough", ""),
     Row("Client.patch", FALSE, "none", "none", "", "PATCH", "passthrough", ""),
     Row("Client.put", FALSE, "none", "none", "", "PUT", "passthrough", ""),
     Row("Client.delete", FALSE, "none", "none", "", "DELETE", "passthrough", "")}

EmailsOps ==
    {Row("Emails.send", TRUE, "zod", "inline",
         "Failed to render email template", "POST", "passthrough", ""),
     Row("Emails.sendQueued", FALSE, "none", "queued",
         "Template render failed", "POST", "queued", ""),
     Row("Emails.get", TRUE, "id", "none", "", "GET", "passthrough", ""),
     Row("Emails.update", TRUE, "zod", "none", "", "PATCH", "passthrough", ""),
     Row("Emails.cancel", TRUE, "id", "none", "", "POST", "passthrough", ""),
     Row("Emails.list", TRUE, "zod", "none", "", "GET", "passthrough", "")}

ApiKeysOps ==
    {Row("ApiKeys.create", TRUE, "zod", "none", "", "POST", "wrapper", "apiKey"),
     Row("ApiKeys.get", TRUE, "zod", "none", "", "GET", "wrapper", "apiKey"),
     Row("ApiKeys.update", TRUE, "zod", "none", "", "PATCH", "wrapper", "apiKey"),
     Row("ApiKeys.remove", TRUE, "zod", "none", "", "DELETE", "removed", ""),
     Row("ApiKeys.list", TRUE, "zod", "none", "", "GET", "data", ""),
     Row("ApiKeys.getUsage", FALSE, "none", "none", "", "GET", "passthrough", ""),
     Row("ApiKeys.regenerate", FALSE, "none", "none", "", "POST", "wrapper", "apiKey")}

BroadcastsOps ==
    {Row("Broadcasts.create", TRUE, "none", "none", "", "POST", "data", ""),
     Row("Broadcasts.get", TRUE, "none", "none", "", "GET", "wrapper", "broadcast"),
     Row("Broadcasts.update", TRUE, "none", "none", "", "PATCH", "wrapper", "broadcast"),
     Row("Broadcasts.list", TRUE, "none", "none", "", "GET", "data", ""),
     Row("Broadcasts.cancel", TRUE, "none", "none", "", "POST", "cancelled", ""),
     Row("Broadcasts.getStats", TRUE, "none", "none", "", "GET", "data", "")}

DomainsOps ==
    {Row("Domains.create", TRUE, "zod", "none", "", "POST", "data", ""),
     Row("Domains.get", TRUE, "zod", "none", "", "GET", "wrapper", "domain"),
     Row("Domains.update", TRUE, "zod", "none", "", "PATCH", "wrapper", "domain"),
     Row("Domains.remove", TRUE, "zod", "none", "", "DELETE", "removed", ""),
     Row("Domains.list", TRUE, "zod", "none", "", "GET", "data", ""),
     Row("Domains.getVerification", TRUE, "zod", "none", "", "GET", "data", ""),
     Row("Domains.verify", TRUE, "zod", "none", "", "POST", "data", ""),
     Row("Domains.setPrimary", FALSE, "none", "none", "", "POST", "wrapper", "domain"),
     Row("Domains.getStats", FALSE, "none", "none", "", "GET", "passthrough", "")}

BatchOps ==
    {Row("Batch.sendEmails", TRUE, "none", "rethrow", "Unknown error",
         "POST", "data", ""),
     Row("Batch.sendMarketingCampaign", TRUE, "none", "inline",
         "Failed to render React template", "POST", "data", ""),
     Row("Batch.sendTransactionalBatch", TRUE, "none", "rethrow",
         "Unknown error", "POST", "data", ""),
     Row("Batch.sendTransactionalEmail", TRUE, "none", "none", "",
         "POST", "data", ""),
     Row("Batch.getStatus", TRUE, "none", "none", "", "GET", "status", ""),
     Row("Batch.cancel", TRUE, "none", "none", "", "POST", "batchCancelled", "")}

ResourceOps == EmailsOps \cup ApiKeysOps \cup BroadcastsOps \cup DomainsOps \cup BatchOps

Ops == ClientOps \cup ResourceOps

NoOp == Row("", FALSE, "none", "none", "", "", "", "")

\* the operations that take a template value
TemplateOps == {o \in Ops : o.template # "none"}

(***************************************************************************)
(* Inputs of an operation.                                                 *)
(*   issues : the messages the operation's schema reports on this input    *)
(*            (<<>>: the input satisfies the schema)                       *)
(*   id     : the id argument of Emails.get and Emails.cancel              *)
(*   react  : the template value: "none", "element" (a React element) or   *)
(*            "notElement" (truthy, but no React element)                  *)
(*   emails : for the batch operations, whether each email has a template  *)
(***************************************************************************)
MaxIssues == 2

MaxEmails == 2

IssueMessages == <<"Company ID must be positive", "API key name is required",
                   "Name too long", "Created by must be a valid UUID">>

\* the first n messages, in the validator's reporting order
IssueList(n) == [i \in 1..n |-> IssueMessages[((i - 1) % Len(IssueMessages)) + 1]]

IssueLists == {IssueList(n) : n \in 0..MaxIssues}

IdValues == {JsStr("em_123"), JsStr(""), JsNum("7"), JsUndefined}

EmailLists == UNION {[1..n -> BOOLEAN] : n \in 1..MaxEmails}

EmailTo(i) == "user" \o ToString(i) \o "@example.com"

\* the per-call header options a caller hands to a Client method
CallHeadersGiven == {NoHeaders, Header("X-Custom", <<"per-call">>)}

Options(props) == Obj("Object", props)

Field(name, kind, v) == name :> F(kind, v)

\* the options the list operations are called with; each satisfies the
\* schema of its operation
ListOptionsGiven(name) ==
    CASE name = "ApiKeys.list" ->
           {Options(Field("company_id", "num", "123")),
            Options(Field("company_id", "num", "123") @@ Field("limit", "num", "10")
                    @@ Field("offset", "num", "5") @@ Field("status", "str", "INACTIVE")),
            Options(Field("company_id", "num", "123") @@ Field("limit", "num", "10")
                    @@ Field("offset", "num", "0"))}
      [] name = "Domains.list" ->
           {Options(Field("company_id", "num", "123")),
            Options(Field("company_id", "num", "123") @@ Field("status", "str", "VERIFIED")
                    @@ Field("is_primary", "bool", "false")
                    @@ Field("limit", "num", "10") @@ Field("offset", "num", "5")),
            Options(Field("company_id", "num", "123") @@ Field("offset", "num", "0"))}
      [] name = "Broadcasts.list" ->
           {Options(Field("company_id", "num", "123")),
            Options(Field("company_id", "num", "123") @@ Field("campaign_id", "num", "7")
                    @@ Field("status", "str", "SENT")
                    @@ Field("channel_type", "str", "EMAIL")
                    @@ Field("limit", "num", "10")),
            Options(Field("company_id", "num", "123") @@ Field("offset", "num", "0"))}
      [] name = "Emails.list" ->
           {JsUndefined,
            Options(Field("limit", "num", "10") @@ Field("status", "str", "sent")),
            Options(Field("before", "str", "") @@ Field("after", "str", "em_9"))}
      [] OTHER -> {JsUndefined}

Inputs(o) ==
    [headers : IF o \in ClientOps THEN CallHeadersGiven ELSE {NoHeaders},
     query  : ListOptionsGiven(o.name),
     issues : IF o.schema /\ o.validates # "id" THEN IssueLists ELSE {<<>>},
     id     : IF o.validates = "id" THEN IdValues ELSE {JsUndefined},
     react  : IF o.template \in {"inline", "queued"}
              THEN {"none", "element", "notElement"} ELSE {"none"},
     emails : IF o.template = "rethrow" THEN EmailLists ELSE {<<>>}]

NoInput ==
    [headers |-> NoHeaders, query |-> JsUndefined, issues |-> <<>>,
     id |-> JsUndefined, react |-> "none", emails |-> <<>>]

\* IdRejected without the typeof test
IdRejectedFalsyOnly(id) == ~Truthy(id)

\* if (!id || typeof id !== "string")
IdRejected(id) == ~Truthy(id) \/ id.kind # "str"

\* the input fails the operation's validation rules
FailsValidation(o, inp) ==
    inp.issues # <<>> \/ (o.validates = "id" /\ IdRejected(inp.id))

\* the envelope the operation returns before anything else, when its own
\* validation step rejects the input; NoEnvelope when it lets the input pass
Nothing == Prim("none", "")

NoEnvelope == Envelope(Nothing, Nothing)

ValidationEnvelope(o, inp) ==
    IF o.validates = "id" /\ IdRejected(inp.id)
    THEN Envelope(JsNull, ErrorInfo("validation_error",
                                    "Email ID is required and must be a string"))
    ELSE IF o.validates = "zod" /\ inp.issues # <<>>
    THEN Envelope(JsNull, normalizeError(ZodError(inp.issues)))
    ELSE NoEnvelope

\* the emails of the input whose template is rendered
TemplatesOf(o, inp) ==
    IF o.template = "rethrow"
    THEN {i \in DOMAIN inp.emails : inp.emails[i]}
    ELSE IF inp.react # "none" THEN {1} ELSE {}

(***************************************************************************)
(* The outgoing request: method, path (with its query string) and headers. *)
(***************************************************************************)
Param(name, field, test) == [name |-> name, field |-> field, test |-> test]

\* the parameters a list operation appends, in the order of its code:
\*   "always"  : params.append(name, options.field.toString())
\*   "truthy"  : if (options.field) params.append(...)
\*   "defined" : if (options.field !== undefined) params.append(...)
ListParams(name) ==
    CASE name = "ApiKeys.list" ->
           <<Param("companyId", "company_id", "always"),
             Param("limit", "limit", "truthy"),
             Param("offset", "offset", "truthy"),
             Param("status", "status", "truthy")>>
      [] name = "Domains.list" ->
           <<Param("companyId", "company_id", "always"),
             Param("status", "status", "truthy"),
             Param("is_primary", "is_primary", "defined"),
             Param("limit", "limit", "truthy"),
             Param("offset", "offset", "truthy")>>
      [] name = "Broadcasts.list" ->
           <<Param("companyId", "company_id", "always"),
             Param("campaign_id", "campaign_id", "truthy"),
             Param("status", "status", "truthy"),
             Param("channel_type", "channel_type", "truthy"),
             Param("message_type", "message_type", "truthy"),
             Param("limit", "limit", "truthy"),
             Param("offset", "offset", "truthy"),
             Param("from_date", "from_date", "truthy"),
             Param("to_date", "to_date", "truthy")>>
      [] name = "Emails.list" ->
           <<Param("limit", "limit", "truthy"),
             Param("before", "before", "truthy"),
             Param("after", "after", "truthy"),
             Param("status", "status", "truthy")>>
      [] OTHER -> <<>>

ListOpNames == {"ApiKeys.list", "Domains.list", "Broadcasts.list", "Emails.list"}

Appended(param, options) ==
    LET x == OptProp(options, param.field)
    IN  CASE param.test = "always"  -> TRUE
          [] param.test = "truthy"  -> Truthy(x)
          [] param.test = "defined" -> x.kind # "undefined"

\* the entries of the URLSearchParams: <<name, value.toString()>>
QueryOf(name, options) ==
    LET kept == SelectSeq(ListParams(name), LAMBDA q : Appended(q, options))
    IN  [i \in 1..Len(kept) |-> <<kept[i].name, OptProp(options, kept[i].field).v>>]

RECURSIVE QueryString(_)
\* params.toString(): name=value joined by "&" (the values here need no escape)
QueryString(query) ==
    IF query = <<>> THEN ""
    ELSE query[1][1] \o "=" \o query[1][2] \o
         (IF Len(query) = 1 THEN "" ELSE "&" \o QueryString(Tail(query)))

\* the id of the resource in the paths of the operations whose inputs the
\* model does not tell apart by id
RESOURCE_ID == "42"

\* the path the operation hands to the Client method
PathOf(o, inp) ==
    LET qs == QueryString(QueryOf(o.name, inp.query))
    IN  CASE o.name = "Emails.get" -> "/emails/" \o inp.id.v
          [] o.name = "Emails.cancel" -> "/emails/" \o inp.id.v \o "/cancel"
          [] o.name = "Emails.list" -> IF qs # "" THEN "/emails?" \o qs ELSE "/emails"
          [] o.name = "ApiKeys.list" -> "/api-keys?" \o qs
          [] o.name = "Domains.list" -> "/domains?" \o qs
          [] o.name = "Broadcasts.list" -> "/broadcasts?" \o qs
          [] o.name = "Emails.send" -> "/emails"
          [] o.name = "Emails.sendQueued" -> "/emails/queue"
          [] o.name = "Emails.update" -> "/emails/" \o RESOURCE_ID
          [] o.name = "ApiKeys.create" -> "/api-keys"
          [] o.name \in {"ApiKeys.get", "ApiKeys.update", "ApiKeys.remove"} ->
               "/api-keys/" \o RESOURCE_ID
          [] o.name = "ApiKeys.getUsage" ->
               "/api-keys/" \o RESOURCE_ID \o "/usage?companyId=123"
          [] o.name = "ApiKeys.regenerate" ->
               "/api-keys/" \o RESOURCE_ID \o "/regenerate"
          [] o.name = "Broadcasts.create" -> "/broadcasts"
          [] o.name = "Broadcasts.get" ->
               "/broadcasts/" \o RESOURCE_ID \o "?companyId=123"
          [] o.name = "Broadcasts.update" -> "/broadcasts/" \o RESOURCE_ID
          [] o.name = "Broadcasts.cancel" ->
               "/broadcasts/" \o RESOURCE_ID \o "/cancel"
          [] o.name = "Broadcasts.getStats" ->
               "/broadcasts/" \o RESOURCE_ID \o "/stats?companyId=123"
          [] o.name = "Domains.create" -> "/domains"
          [] o.name \in {"Domains.get", "Domains.update", "Domains.remove"} ->
               "/domains/" \o RESOURCE_ID
          [] o.name = "Domains.getVerification" ->
               "/domains/" \o RESOURCE_ID \o "/verification"
          [] o.name = "Domains.verify" -> "/domains/" \o RESOURCE_ID \o "/verify"
          [] o.name = "Domains.setPrimary" ->
               "/domains/" \o RESOURCE_ID \o "/set-primary"
          [] o.name = "Domains.getStats" ->
               "/domains/" \o RESOURCE_ID \o "/stats?companyId=123"
          [] o.name = "Batch.sendEmails" -> "/batch-email"
          [] o.name = "Batch.sendMarketingCampaign" -> "/emails/marketing/campaign"
          [] o.name = "Batch.sendTransactionalBatch" -> "/emails/transactional/batch"
          [] o.name = "Batch.sendTransactionalEmail" -> "/emails/transactional/send"
          [] o.name = "Batch.getStatus" -> "/batch-email/" \o RESOURCE_ID \o "/status"
          [] o.name = "Batch.cancel" -> "/batch-email/" \o RESOURCE_ID \o "/cancel"
          [] OTHER -> "/resource"

\* the request fetch is called with: `${this.baseUrl}${path}` and the init
RequestOf(cl, o, inp) ==
    LET init == FetchInitOf(cl, RequestInitOf(o.method, inp.headers))
    IN  [method |-> init.method,
         url |-> cl.baseUrl \o PathOf(o, inp),
         path |-> PathOf(o, inp),
         query |-> QueryOf(o.name, inp.query),
         headers |-> init.headers]

NoRequest ==
    [method |-> "", url |-> "", path |-> "", query |-> <<>>, headers |-> NoHeaders]

(***************************************************************************)
(* Mapping the Client's envelope into the operation's.                     *)
(***************************************************************************)
Returned(env) == [threw |-> FALSE, env |-> env, err |-> Nothing]

Threw(err) == [threw |-> TRUE, env |-> NoEnvelope, err |-> err]

SuccessDefault == ObjectOf((("success" :> F("bool", "true"))))

CancelledDefault ==
    ObjectOf((("success" :> F("bool", "true")) @@
                ("status" :> F("str", "CANCELLED"))))

BatchCancelledDefault ==
    ObjectOf((("success" :> F("bool", "true")) @@
                ("cancelled_at" :> F("str", "<now>"))))

isValidBatchStatus(data) ==
    /\ Truthy(data)
    /\ Prop(data, "batch_id").kind = "str"
    /\ Prop(data, "status").kind = "str"
    /\ Prop(data, "status").v \in {"PROCESSING", "COMPLETED", "FAILED"}
    /\ Prop(data, "total_emails").kind = "num"
    /\ Prop(data, "processed").kind = "num"
    /\ Prop(data, "successful").kind = "num"
    /\ Prop(data, "failed").kind = "num"
    /\ Prop(data, "created_at").kind = "str"

\* if (response.error) return { data: null, error: response.error }; else rest
IfNoError(response, rest) ==
    IF Truthy(response.error)
    THEN Returned(Envelope(JsNull, response.error))
    ELSE rest

MapPassthrough(response) == Returned(response)

MapData(response) ==
    IfNoError(response, Returned(Envelope(OrElse(response.data, JsNull), JsNull)))

\* MapWrapper handing on the whole body
MapWrapperWhole(response, key) ==
    IfNoError(response, Returned(Envelope(OrElse(response.data, JsNull), JsNull)))

MapWrapper(response, key) ==
    IfNoError(response,
        Returned(Envelope(OrElse(OptProp(response.data, key), JsNull), JsNull)))

MapRemoved(response) ==
    IfNoError(response,
        Returned(Envelope(OrElse(response.data, SuccessDefault), JsNull)))

\* MapCancelled supplying no default payload
MapCancelledNoDefault(response) ==
    IfNoError(response, Returned(Envelope(OrElse(response.data, JsNull), JsNull)))

MapCancelled(response) ==
    IfNoError(response,
        Returned(Envelope(OrElse(response.data, CancelledDefault), JsNull)))

MapQueued(response) ==
    IF ~Truthy(OptProp(response.data, "idempotencyKey"))
    THEN Returned(Envelope(JsNull,
            ErrorInfo("application_error",
                      "No idempotency key returned from queue endpoint")))
    ELSE Returned(Envelope(response.data, response.error))

MapStatus(response) ==
    IfNoError(response,
        IF Truthy(response.data) /\ isValidBatchStatus(response.data)
        THEN Returned(Envelope(response.data, JsNull))
        ELSE Returned(Envelope(JsNull, JsNull)))

\* response.data && 'success' in response.data: the in operator throws a
\* TypeError when its right operand is not an object
MapBatchCancelled(response) ==
    IfNoError(response,
        IF ~Truthy(response.data)
        THEN Returned(Envelope(BatchCancelledDefault, JsNull))
        ELSE IF response.data.kind # "obj"
        THEN Threw(TypeErrorOf("Cannot use 'in' operator to search for 'success'"))
        ELSE IF Prop(response.data, "success").kind # "absent"
        THEN Returned(Envelope(response.data, JsNull))
        ELSE Returned(Envelope(BatchCancelledDefault, JsNull)))

OpMap(o, response) ==
    CASE o.map = "passthrough" -> MapPassthrough(response)
      [] o.map = "data" -> MapData(response)
      [] o.map = "wrapper" -> MapWrapper(response, o.wrapper)
      [] o.map = "removed" -> MapRemoved(response)
      [] o.map = "cancelled" -> MapCancelled(response)
      [] o.map = "queued" -> MapQueued(response)
      [] o.map = "status" -> MapStatus(response)
      [] o.map = "batchCancelled" -> MapBatchCancelled(response)

\* catch (error) { return { data: null, error: normalizeError(error) } }
OpCatch(err) == Envelope(JsNull, normalizeError(err))

\* the envelope the operation returns once the Client has returned response
OpResult(o, response) ==
    LET m == OpMap(o, response)
    IN  IF m.threw /\ o \in ResourceOps THEN OpCatch(m.err) ELSE m.env

(***************************************************************************)
(* State.  One Client and the calls made on it; every call has its own     *)
(* timer, AbortController and network attempt.                             *)
(***************************************************************************)
Calls == {"c1", "c2"}

\* the calls the sequential specification runs
SeqCalls == {"c1"}

VARIABLES
    ctor,            \* the call of the constructor: its key and what it threw
    client,          \* the Client's key, baseUrl, timeout and headers
    req,             \* the request each call handed to fetch, or NoRequest
    pc,              \* where each call is: idle, rendering, fetching, reading, done
    op,              \* the name of the operation called ("" when idle)
    input,           \* its input
    pending,         \* the templates still being rendered
    html,            \* the length of the HTML rendered, where the code reads it
    timer,           \* the call's timeout timer: unset, armed, fired, cleared
    aborted,         \* controller.signal.aborted
    net,             \* the network attempt: none, pending, responded, failed, aborted, read
    resp,            \* the response received: <<status, raw>>, or <<>>
    thrown,          \* the value fetchRequest's catch block caught, or Nothing
    opThrown,        \* the value the operation's catch block caught, or Nothing
    tenv,            \* the envelope the Client returned, or NoEnvelope
    result,          \* the envelope the operation returned, or NoEnvelope
    transportCalls,  \* how often the operation called a Client method
    fetchCalls,      \* how often fetch() was called
    renderCalls,     \* how often renderAsync was called
    renderErr,       \* the value renderAsync rejected with, or Nothing
    raised           \* the value the operation threw or rejected with, or Nothing

vars == <<ctor, client, req, pc, op, input, pending, html, timer, aborted, net, resp,
          thrown, opThrown, tenv, result, transportCalls, fetchCalls,
          renderCalls, renderErr, raised>>

\* the constructor calls the model starts from: the usual key with every
\* option set, every other key with the first
ConstructionsGiven ==
    {<<k, o>> \in ApiKeysGiven \X ClientOptionsGiven :
        k = "rk_live_0123456789" \/ o.defaultHeaders = <<>>}

\* new Client(key, options): the Client, or the Error thrown
Construct(key, options) ==
    LET msgs == KeyIssues(key)
    IN  IF msgs = <<>>
        THEN [key |-> key, thrown |-> Nothing, client |-> ClientOf(key, options)]
        ELSE [key |-> key, thrown |-> JsError(InvalidKeyMessage(msgs)),
              client |-> NoClient]

Init ==
    /\ \E ko \in ConstructionsGiven :
          LET made == Construct(ko[1], ko[2])
          IN  /\ ctor = [key |-> made.key, thrown |-> made.thrown]
              /\ client = made.client
    /\ req = [c \in Calls |-> NoRequest]
    /\ pc = [c \in Calls |-> "idle"]
    /\ op = [c \in Calls |-> ""]
    /\ input = [c \in Calls |-> NoInput]
    /\ pending = [c \in Calls |-> {}]
    /\ html = [c \in Calls |-> 0]
    /\ timer = [c \in Calls |-> "unset"]
    /\ aborted = [c \in Calls |-> FALSE]
    /\ net = [c \in Calls |-> "none"]
    /\ resp = [c \in Calls |-> <<>>]
    /\ thrown = [c \in Calls |-> Nothing]
    /\ opThrown = [c \in Calls |-> Nothing]
    /\ tenv = [c \in Calls |-> NoEnvelope]
    /\ result = [c \in Calls |-> NoEnvelope]
    /\ transportCalls = [c \in Calls |-> 0]
    /\ fetchCalls = [c \in Calls |-> 0]
    /\ renderCalls = [c \in Calls |-> 0]
    /\ renderErr = [c \in Calls |-> Nothing]
    /\ raised = [c \in Calls |-> Nothing]

\* the row of the operation call c runs
Op(c) == IF op[c] = "" THEN NoOp ELSE CHOOSE o \in Ops : o.name = op[c]

\* this.client.<method>(...): fetchRequest arms the timer and calls fetch
Dispatch(c, o, inp) ==
    /\ req' = [req EXCEPT ![c] = RequestOf(client, o, inp)]
    /\ transportCalls' = [transportCalls EXCEPT ![c] = @ + 1]
    /\ fetchCalls' = [fetchCalls EXCEPT ![c] = @ + 1]
    /\ timer' = [timer EXCEPT ![c] = "armed"]
    /\ net' = [net EXCEPT ![c] = "pending"]
    /\ pc' = [pc EXCEPT ![c] = "fetching"]
    /\ UNCHANGED <<aborted, resp, thrown, opThrown, tenv, result>>

\* the operation returns env without having called the Client
ReturnEarly(c, env, caught) ==
    /\ result' = [result EXCEPT ![c] = env]
    /\ opThrown' = [opThrown EXCEPT ![c] = caught]
    /\ pc' = [pc EXCEPT ![c] = "done"]
    /\ UNCHANGED <<req, timer, aborted, net, resp, thrown, tenv, transportCalls,
                   fetchCalls>>

\* fetchRequest returns env; the operation maps it and returns
ClientReturns(c, env) ==
    LET m == OpMap(Op(c), env)
    IN  /\ tenv' = [tenv EXCEPT ![c] = env]
        /\ result' = [result EXCEPT ![c] = OpResult(Op(c), env)]
        /\ opThrown' = [opThrown EXCEPT ![c] =
                            IF m.threw /\ Op(c) \in ResourceOps THEN m.err ELSE @]
        /\ pc' = [pc EXCEPT ![c] = "done"]

(***************************************************************************)
(* A call of an operation, up to its first await: validation, then the     *)
(* renderer or the Client.                                                 *)
(***************************************************************************)
Invoke(c, o, inp) ==
    /\ client # NoClient
    /\ pc[c] = "idle"
    /\ op' = [op EXCEPT ![c] = o.name]
    /\ input' = [input EXCEPT ![c] = inp]
    /\ html' = [html EXCEPT ![c] = 0]
    /\ UNCHANGED <<ctor, client, raised, renderErr>>
    /\ LET early == ValidationEnvelope(o, inp)
           templates == TemplatesOf(o, inp)
       IN  IF early # NoEnvelope
           THEN /\ ReturnEarly(c, early,
                               IF o.validates = "zod" THEN ZodError(inp.issues)
                               ELSE Nothing)
                /\ UNCHANGED <<pending, renderCalls>>
           ELSE IF o.template = "queued" /\ inp.react = "notElement"
           THEN \* if (!React.isValidElement(payload.react)) throw new Error(...)
                /\ ReturnEarly(c,
                       Envelope(JsNull, ErrorInfo("application_error",
                           "Invalid React element provided to renderAsync")),
                       Nothing)
                /\ UNCHANGED <<pending, renderCalls>>
           ELSE IF templates # {}
           THEN /\ pending' = [pending EXCEPT ![c] = templates]
                /\ renderCalls' = [renderCalls EXCEPT ![c] = @ + Cardinality(templates)]
                /\ pc' = [pc EXCEPT ![c] = "rendering"]
                /\ UNCHANGED <<req, timer, aborted, net, resp, thrown, opThrown,
                               tenv, result, transportCalls, fetchCalls>>
           ELSE /\ Dispatch(c, o, inp)
                /\ UNCHANGED <<pending, renderCalls>>

(***************************************************************************)
(* The renderer.                                                           *)
(***************************************************************************)
MAX_HTML_LENGTH == 100000

HtmlLengths == {120, MAX_HTML_LENGTH + 1}

RenderErrors == {JsError("boom"), JsStr("render exploded")}

\* renderAsync resolves for template i with HTML of length len
RenderResolves(c, i, len) ==
    /\ pc[c] = "rendering"
    /\ i \in pending[c]
    /\ pending' = [pending EXCEPT ![c] = @ \ {i}]
    /\ html' = [html EXCEPT ![c] = IF Op(c).template = "queued" THEN len ELSE @]
    /\ UNCHANGED <<ctor, client, raised, op, input, renderCalls, renderErr>>
    /\ IF pending[c] # {i}
       THEN UNCHANGED <<req, pc, timer, aborted, net, resp, thrown, opThrown,
                        tenv, result, transportCalls, fetchCalls>>
       ELSE IF Op(c).template = "queued" /\ len > MAX_HTML_LENGTH
       THEN \* throw new Error("Rendered HTML body too large"), caught in place
            ReturnEarly(c,
                Envelope(JsNull, ErrorInfo("application_error",
                                           "Rendered HTML body too large")),
                Nothing)
       ELSE Dispatch(c, Op(c), input[c])

\* the message taken from a render failure
RenderMessage(err, fallback) ==
    IF InstanceOfError(err) THEN Prop(err, "message").v ELSE fallback

\* the Error the batch operations throw from their per-email catch
RethrownRenderError(i, err, fallback) ==
    JsError("Failed to render template for email to " \o EmailTo(i) \o ": "
            \o RenderMessage(err, fallback))

\* renderAsync rejects for template i with err
RenderRejects(c, i, err) ==
    /\ pc[c] = "rendering"
    /\ i \in pending[c]
    /\ pending' = [pending EXCEPT ![c] = {}]
    /\ renderErr' = [renderErr EXCEPT ![c] = err]
    /\ UNCHANGED <<ctor, client, raised, op, input, html, renderCalls>>
    /\ IF Op(c).template = "rethrow"
       THEN LET e == RethrownRenderError(i, err, Op(c).fallback)
            IN  ReturnEarly(c, OpCatch(e), e)
       ELSE ReturnEarly(c,
                Envelope(JsNull, ErrorInfo("application_error",
                                           RenderMessage(err, Op(c).fallback))),
                Nothing)

(***************************************************************************)
(* The network attempt of fetchRequest.                                    *)
(***************************************************************************)
\* fetch resolves with a response: clearTimeout(timeoutId), then the body is read
FetchResolves(c, status, raw) ==
    /\ pc[c] = "fetching"
    /\ net[c] = "pending"
    /\ resp' = [resp EXCEPT ![c] = <<status, raw>>]
    /\ net' = [net EXCEPT ![c] = "responded"]
    /\ timer' = [timer EXCEPT ![c] = "cleared"]
    /\ pc' = [pc EXCEPT ![c] = "reading"]
    /\ UNCHANGED <<ctor, client, raised, req, op, input, pending, html, aborted, thrown, opThrown,
                   tenv, result, transportCalls, fetchCalls, renderCalls, renderErr>>

\* the body arrives whole: response.text() / response.json() settle
BodyArrives(c) ==
    /\ pc[c] = "reading"
    /\ LET status == resp[c][1]
           raw == resp[c][2]
           parsed == JSONParse(raw)
       IN  /\ thrown' = [thrown EXCEPT ![c] =
                            IF ResponseOk(status) /\ ~parsed.ok THEN parsed.val ELSE @]
           /\ ClientReturns(c, ResponseEnvelope(status, raw, client.timeout))
    /\ net' = [net EXCEPT ![c] = "read"]
    /\ UNCHANGED <<ctor, client, raised, req, op, input, pending, html, timer, aborted, resp,
                   transportCalls, fetchCalls, renderCalls, renderErr>>

\* reading the body rejects with err
BodyFails(c, err) ==
    /\ pc[c] = "reading"
    /\ thrown' = [thrown EXCEPT ![c] = err]
    /\ net' = [net EXCEPT ![c] = "failed"]
    /\ ClientReturns(c, CatchEnvelope(err, client.timeout))
    /\ UNCHANGED <<ctor, client, raised, req, op, input, pending, html, timer, aborted, resp,
                   transportCalls, fetchCalls, renderCalls, renderErr>>

\* fetch rejects with err, the timer not having fired: the catch block runs
\* and the timer stays as it is
FetchRejects(c, err) ==
    /\ pc[c] = "fetching"
    /\ net[c] = "pending"
    /\ thrown' = [thrown EXCEPT ![c] = err]
    /\ net' = [net EXCEPT ![c] = "failed"]
    /\ ClientReturns(c, CatchEnvelope(err, client.timeout))
    /\ UNCHANGED <<ctor, client, raised, req, op, input, pending, html, timer, aborted, resp,
                   transportCalls, fetchCalls, renderCalls, renderErr>>

\* TimerFires with a retry: the first timeout of a call dispatches again
TimerFiresRetry(c) ==
    /\ timer[c] = "armed"
    /\ UNCHANGED <<ctor, client, raised, req, op, input, pending, html, resp, transportCalls,
                   renderCalls, renderErr>>
    /\ IF pc[c] = "fetching" /\ net[c] = "pending" /\ fetchCalls[c] < 2
       THEN /\ fetchCalls' = [fetchCalls EXCEPT ![c] = @ + 1]
            /\ aborted' = [aborted EXCEPT ![c] = TRUE]
            /\ UNCHANGED <<timer, pc, net, thrown, opThrown, tenv, result>>
       ELSE /\ timer' = [timer EXCEPT ![c] = "fired"]
            /\ aborted' = [aborted EXCEPT ![c] = TRUE]
            /\ UNCHANGED <<pc, net, thrown, opThrown, tenv, result, fetchCalls>>

\* TimerFires with one AbortController shared by the Client's calls: every
\* fetch still pending rejects with the AbortError
TimerFiresAll(c) ==
    LET hit == {d \in Calls : pc[d] = "fetching" /\ net[d] = "pending"}
        env == CatchEnvelope(AbortError, client.timeout)
    IN  /\ timer[c] = "armed"
        /\ timer' = [timer EXCEPT ![c] = "fired"]
        /\ aborted' = [d \in Calls |-> aborted[d] \/ d = c \/ d \in hit]
        /\ thrown' = [d \in Calls |-> IF d \in hit THEN AbortError ELSE thrown[d]]
        /\ net' = [d \in Calls |-> IF d \in hit THEN "aborted" ELSE net[d]]
        /\ tenv' = [d \in Calls |-> IF d \in hit THEN env ELSE tenv[d]]
        /\ result' = [d \in Calls |->
                          IF d \in hit THEN OpResult(Op(d), env) ELSE result[d]]
        /\ pc' = [d \in Calls |-> IF d \in hit THEN "done" ELSE pc[d]]
        /\ UNCHANGED <<ctor, client, raised, req, op, input, pending, html, resp,
                       opThrown, transportCalls, fetchCalls, renderCalls, renderErr>>

\* the timer fires: controller.abort(); a fetch still pending rejects with
\* the signal's AbortError
TimerFires(c) ==
    /\ timer[c] = "armed"
    /\ timer' = [timer EXCEPT ![c] = "fired"]
    /\ aborted' = [aborted EXCEPT ![c] = TRUE]
    /\ UNCHANGED <<ctor, client, raised, req, op, input, pending, html, resp, transportCalls,
                   fetchCalls, renderCalls, renderErr>>
    /\ IF pc[c] = "fetching" /\ net[c] = "pending"
       THEN /\ thrown' = [thrown EXCEPT ![c] = AbortError]
            /\ net' = [net EXCEPT ![c] = "aborted"]
            /\ ClientReturns(c, CatchEnvelope(AbortError, client.timeout))
       ELSE UNCHANGED <<pc, net, thrown, opThrown, tenv, result>>

\* the caller has the envelope and the call's timer is no longer pending:
\* the slot is free for the next call
Release(c) ==
    /\ pc[c] = "done"
    /\ timer[c] # "armed"
    /\ pc' = [pc EXCEPT ![c] = "idle"]
    /\ req' = [req EXCEPT ![c] = NoRequest]
    /\ op' = [op EXCEPT ![c] = ""]
    /\ input' = [input EXCEPT ![c] = NoInput]
    /\ pending' = [pending EXCEPT ![c] = {}]
    /\ html' = [html EXCEPT ![c] = 0]
    /\ timer' = [timer EXCEPT ![c] = "unset"]
    /\ aborted' = [aborted EXCEPT ![c] = FALSE]
    /\ net' = [net EXCEPT ![c] = "none"]
    /\ resp' = [resp EXCEPT ![c] = <<>>]
    /\ thrown' = [thrown EXCEPT ![c] = Nothing]
    /\ opThrown' = [opThrown EXCEPT ![c] = Nothing]
    /\ tenv' = [tenv EXCEPT ![c] = NoEnvelope]
    /\ result' = [result EXCEPT ![c] = NoEnvelope]
    /\ transportCalls' = [transportCalls EXCEPT ![c] = 0]
    /\ fetchCalls' = [fetchCalls EXCEPT ![c] = 0]
    /\ renderCalls' = [renderCalls EXCEPT ![c] = 0]
    /\ renderErr' = [renderErr EXCEPT ![c] = Nothing]
    /\ raised' = [raised EXCEPT ![c] = Nothing]
    /\ UNCHANGED <<ctor, client>>

(***************************************************************************)
(* A Client whose methods are replaced, as the resource classes' tests     *)
(* build one: a replaced method may throw when called, or hand back a      *)
(* promise that rejects.                                                   *)
(***************************************************************************)
InjectedErrors == {JsError("transport down"), JsStr("transport down")}

\* the operations that call the Client outside any try block
UnguardedOps == {o \in ResourceOps : o.name \in {"Emails.get", "Emails.cancel"}}

\* the operations that hand on the Client's promise without awaiting it
\* (return this.client.<method>(...)): their catch block never sees it reject
UnawaitedOps == {o \in ResourceOps : o.map = "passthrough"}

\* the operation ends having thrown, or with its promise rejected with err
Raises(c, err) ==
    /\ raised' = [raised EXCEPT ![c] = err]
    /\ pc' = [pc EXCEPT ![c] = "done"]
    /\ UNCHANGED <<result, opThrown>>

\* the operation's catch block turns err into an envelope
Catches(c, err) ==
    /\ result' = [result EXCEPT ![c] = OpCatch(err)]
    /\ opThrown' = [opThrown EXCEPT ![c] = err]
    /\ pc' = [pc EXCEPT ![c] = "done"]
    /\ UNCHANGED raised

\* a call of operation o whose input passes validation and needs no
\* rendering: the Client method throws err as soon as it is called
InjectedThrows(c, o, inp, err) ==
    /\ client # NoClient
    /\ pc[c] = "idle"
    /\ ValidationEnvelope(o, inp) = NoEnvelope
    /\ ~(o.template = "queued" /\ inp.react = "notElement")
    /\ TemplatesOf(o, inp) = {}
    /\ op' = [op EXCEPT ![c] = o.name]
    /\ input' = [input EXCEPT ![c] = inp]
    /\ transportCalls' = [transportCalls EXCEPT ![c] = @ + 1]
    /\ net' = [net EXCEPT ![c] = "threw"]
    /\ IF o \in UnguardedOps THEN Raises(c, err) ELSE Catches(c, err)
    /\ UNCHANGED <<ctor, client, req, pending, html, timer, aborted, resp, thrown, tenv,
                   fetchCalls, renderCalls, renderErr>>

\* the promise the Client method handed back rejects with err
InjectedRejects(c, err) ==
    /\ pc[c] = "fetching"
    /\ net[c] = "pending"
    /\ net' = [net EXCEPT ![c] = "rejected"]
    /\ IF Op(c) \in UnawaitedOps THEN Raises(c, err) ELSE Catches(c, err)
    /\ UNCHANGED <<ctor, client, req, op, input, pending, html, timer, aborted, resp,
                   thrown, tenv, transportCalls, fetchCalls, renderCalls, renderErr>>

Step(c) ==
    \/ \E o \in Ops : \E inp \in Inputs(o) : Invoke(c, o, inp)
    \/ \E i \in 1..MaxEmails : \E len \in HtmlLengths : RenderResolves(c, i, len)
    \/ \E i \in 1..MaxEmails : \E err \in RenderErrors : RenderRejects(c, i, err)
    \/ \E status \in Statuses : \E raw \in RawBodies : FetchResolves(c, status, raw)
    \/ BodyArrives(c)
    \/ \E err \in BodyErrors : BodyFails(c, err)
    \/ \E err \in FetchErrors : FetchRejects(c, err)
    \/ TimerFires(c)
    \/ Release(c)

Next == \E c \in SeqCalls : Step(c)

Spec == Init /\ [][Next]_vars

\* an armed timer fires unless it is cleared first (setTimeout); nothing
\* obliges the remote side to answer or to finish sending a body
SpecFair == Spec /\ \A c \in SeqCalls : WF_vars(TimerFires(c))

\* two calls in flight on the same Client, their steps interleaved in every
\* order: calls of get, post and Emails.get, answered with one of ConcBodies
ConcOps == {o \in Ops : o.name \in {"Client.get", "Client.post", "Emails.get"}}

ConcBodies == {BodyEmptyObject, BodyNotFound, BodyTimeout, BodyHtml}

StepConc(c) ==
    \/ \E o \in ConcOps : \E inp \in Inputs(o) : Invoke(c, o, inp)
    \/ \E status \in Statuses : \E raw \in ConcBodies : FetchResolves(c, status, raw)
    \/ BodyArrives(c)
    \/ \E err \in BodyErrors : BodyFails(c, err)
    \/ \E err \in FetchErrors : FetchRejects(c, err)
    \/ TimerFires(c)
    \/ Release(c)

NextConc == \E c \in Calls : StepConc(c)

SpecConc == Init /\ [][NextConc]_vars

\* the resource operations over a Client whose methods may have been replaced
StepInjected(c) ==
    \/ Step(c)
    \/ \E o \in ResourceOps : \E inp \in Inputs(o) : \E err \in InjectedErrors :
          InjectedThrows(c, o, inp, err)
    \/ \E err \in InjectedErrors : InjectedRejects(c, err)

NextInjected == \E c \in SeqCalls : StepInjected(c)

SpecInjected == Init /\ [][NextInjected]_vars

(***************************************************************************)
(* Properties.                                                             *)
(***************************************************************************)
NonNull(x) == ~IsNull(x)

BothNull(env) == IsNull(env.data) /\ IsNull(env.error)

BothNonNull(env) == NonNull(env.data) /\ NonNull(env.error)

ExactlyOneNonNull(env) == IsNull(env.data) # IsNull(env.error)

\* the call has returned to its caller
Done(c) == pc[c] = "done"

\* the call went through the Client, which has returned
ClientReturned(c) == Done(c) /\ tenv[c] # NoEnvelope

\* the body of the call's response was read to its end
BodyRead(c) == ClientReturned(c) /\ net[c] = "read"

StatusOf(c) == resp[c][1]

RawOf(c) == resp[c][2]

\* C1 as stated: every envelope returned by a Client method or by a resource
\* operation has exactly one of data and error non-null.
C1_ExactlyOneNonNull ==
    \A c \in Calls :
        Done(c) =>
            /\ ExactlyOneNonNull(result[c])
            /\ ClientReturned(c) => ExactlyOneNonNull(tenv[c])

\* C1 amended: no returned envelope has data and error both non-null, and
\* both are null only where a response arrived and its body parsed as JSON:
\* for the Client only where the body is the JSON null, for an operation
\* never after a validation failure, a render failure, a timeout or a failed
\* exchange.
C1_AtMostOneNonNull ==
    \A c \in Calls :
        Done(c) =>
            /\ ~BothNonNull(result[c])
            /\ ClientReturned(c) => ~BothNonNull(tenv[c])
            /\ BothNull(result[c]) => BodyRead(c) /\ JSONParse(RawOf(c)).ok
            /\ (ClientReturned(c) /\ BothNull(tenv[c])) =>
                   BodyRead(c) /\ JSONParse(RawOf(c)) = Parsed(JsNull)

\* a get whose success response lacks the wrapper key returns both null
C1_Witness ==
    \E c \in Calls :
        /\ Done(c)
        /\ op[c] = "ApiKeys.get"
        /\ resp[c] = <<200, BodyEmptyObject>>
        /\ BothNull(result[c])
        /\ ExactlyOneNonNull(tenv[c])

\* C2 as stated: for every resource operation and every input that fails the
\* operation's validation rules, no Client method is called and the
\* operation returns {data: null, error: {name: "validation_error", ...}}.
C2_NoTransportOnInvalidInput ==
    \A c \in Calls :
        (Op(c) \in ResourceOps /\ FailsValidation(Op(c), input[c])) =>
            /\ transportCalls[c] = 0
            /\ Done(c) =>
                  /\ IsNull(result[c].data)
                  /\ Prop(result[c].error, "name") = F("str", "validation_error")

\* C3: when the timer of a call fires while its network call is pending, the
\* call's signal is aborted and the Client returns exactly
\* {data: null, error: {name: "request_timeout",
\*                      message: "Request timed out after <T>ms"}}.
C3_TimeoutEnvelope ==
    [][\A c \in Calls :
          (timer[c] = "armed" /\ net[c] = "pending" /\ timer'[c] = "fired") =>
              /\ aborted'[c]
              /\ net'[c] = "aborted"
              /\ tenv'[c] =
                    [data |-> JsNull,
                     error |-> ErrorInfo("request_timeout",
                                  "Request timed out after "
                                  \o ToString(client.timeout) \o "ms")]
              /\ client.timeout = DEFAULT_TIMEOUT =>
                    Prop(tenv'[c].error, "message").v
                        = "Request timed out after 10000ms"]_vars

C3_Witness ==
    \E c \in Calls :
        /\ Done(c)
        /\ timer[c] = "fired"
        /\ net[c] = "aborted"
        /\ Prop(tenv[c].error, "name").v = "request_timeout"
        /\ client.timeout = 2500

\* the body parsed as JSON but is no {name: string, message: string}
NotErrorShaped(raw) ==
    JSONParse(raw).ok /\ ~isRavenErrorResponse(JSONParse(raw).val)

\* C4 as stated: for every non-2xx response the Client returns data null and
\* a non-null error with a string name and a string message; a body that
\* parses as JSON without matching that shape is replaced by the generic
\* internal_server_error envelope.
C4_ErrorShapeOnNon2xx ==
    \A c \in Calls :
        (BodyRead(c) /\ ~ResponseOk(StatusOf(c))) =>
            /\ IsNull(tenv[c].data)
            /\ NonNull(tenv[c].error)
            /\ isRavenErrorResponse(tenv[c].error)
            /\ NotErrorShaped(RawOf(c)) => tenv[c] = GenericErrorEnvelope

\* C5: for a non-2xx response whose body is not valid JSON the Client does
\* not raise (its catch block is not entered, it returns) and returns exactly
\* {data: null, error: {name: "internal_server_error",
\*                      message: "An unexpected error occurred"}}.
C5_GenericOnUnparseableErrorBody ==
    \A c \in Calls :
        (pc[c] \in {"reading", "done"} /\ net[c] = "read"
            /\ ~ResponseOk(StatusOf(c)) /\ ~JSONParse(RawOf(c)).ok) =>
            /\ Done(c)
            /\ thrown[c] = Nothing
            /\ tenv[c] =
                  [data |-> JsNull,
                   error |-> ErrorInfo("internal_server_error",
                                       "An unexpected error occurred")]

C5_Witness ==
    \E c \in Calls :
        /\ BodyRead(c)
        /\ resp[c] = <<404, BodyHtml>>
        /\ Prop(tenv[c].error, "message").v = "An unexpected error occurred"

\* C6 as stated: for every resource operation, whenever the Client's envelope
\* carries a non-null error e, the operation returns {data: null, error: e}.
C6_ErrorPropagatedUnchanged ==
    \A c \in Calls :
        (ClientReturned(c) /\ Op(c) \in ResourceOps /\ NonNull(tenv[c].error)) =>
            result[c] = [data |-> JsNull, error |-> tenv[c].error]

\* what C7 says normalizeError makes of a caught value
C7_Expected(e) ==
    IF e.cls = "ZodError"
    THEN ErrorInfo("validation_error", Join(e.issues))
    ELSE IF InstanceOfError(e)
    THEN ErrorInfo("application_error", Prop(e, "message").v)
    ELSE IF isRavenErrorResponse(e) THEN e
    ELSE ErrorInfo("application_error", "Unknown error")

\* C7 as stated: a value caught by an operation is normalised to
\* validation_error for a schema-validation error, to
\* {name: "application_error", message: m} for any other Error with message m,
\* to itself when it has the ErrorInfo shape, and to
\* {name: "application_error", message: "Unknown error"} otherwise.
C7_NormalizedByPrecedence ==
    \A c \in Calls :
        (Done(c) /\ opThrown[c] # Nothing) =>
            result[c] = [data |-> JsNull, error |-> C7_Expected(opThrown[c])]

\* C8 as stated: for every operation that takes a template value, when the
\* renderer rejects with an Error of message m the operation returns exactly
\* {data: null, error: {name: "application_error", message: m}} and no
\* Client method is called.
C8_RenderFailureEnvelope ==
    \A c \in Calls :
        (Done(c) /\ Op(c) \in TemplateOps /\ InstanceOfError(renderErr[c])) =>
            /\ result[c] =
                  [data |-> JsNull,
                   error |-> ErrorInfo("application_error",
                                       Prop(renderErr[c], "message").v)]
            /\ transportCalls[c] = 0

\* C9: when the exchange fails and the call's timer did not abort it (fetch
\* rejects, reading the body rejects, or the body of a 2xx response does not
\* parse),
\* the Client returns {data: null, error: {name: "internal_server_error",
\* message: m}} with m the message of the failure, or "Unknown error" when
\* the value thrown is no Error.
C9_NetworkFailureEnvelope ==
    \A c \in Calls :
        (thrown[c] # Nothing /\ net[c] # "aborted") =>
            /\ Done(c)
            /\ tenv[c] =
                  [data |-> JsNull,
                   error |-> ErrorInfo("internal_server_error",
                                IF InstanceOfError(thrown[c])
                                THEN Prop(thrown[c], "message").v
                                ELSE "Unknown error")]

C9_Witness ==
    \E c \in Calls :
        /\ Done(c)
        /\ thrown[c] = JsStr("socket hang up")
        /\ Prop(tenv[c].error, "message").v = "Unknown error"

\* C10: a call of a Client method calls fetch exactly once and an operation
\* calls a Client method at most once, whatever the outcome: an operation
\* that returned without the Client made no attempt, any other exactly one.
C10_SingleAttempt ==
    \A c \in Calls :
        /\ transportCalls[c] <= 1
        /\ fetchCalls[c] = transportCalls[c]
        /\ pc[c] \in {"fetching", "reading"} => fetchCalls[c] = 1
        /\ ClientReturned(c) => fetchCalls[c] = 1
        /\ (Done(c) /\ tenv[c] = NoEnvelope) => fetchCalls[c] = 0

C10_Witness ==
    \E c \in Calls :
        /\ Done(c)
        /\ Op(c) \in ResourceOps
        /\ net[c] = "aborted"
        /\ fetchCalls[c] = 1
        /\ transportCalls[c] = 1

\* the call has handed a request to fetch
Sent(c) == req[c] # NoRequest

\* C11 as stated: when a Client method is called with per-call header
\* overrides, the headers of the outgoing request are the Client's headers
\* merged with the overrides, an override winning over the Client's header of
\* the same name.
C11_PerCallHeadersWin ==
    \A c \in Calls :
        (Sent(c) /\ Op(c) \in ClientOps /\ Op(c).method # "DELETE"
                 /\ input[c].headers # NoHeaders) =>
            req[c].headers = input[c].headers @@ client.headers

\* C12: on a Client constructed with key k and defaultHeaders
\* {"X-Custom": "v"}, the request of every operation carries Authorization
\* "Bearer k", Content-Type "application/json", an X-SDK-Version that begins
\* with "raven-sdk:", and X-Custom "v".
C12_RequiredHeaders ==
    \A k \in ApiKeysGiven : \A o \in ClientOptionsGiven :
        (o.defaultHeaders = <<Header("X-Custom", <<"v">>)>>
            /\ client = ClientOf(k, o)) =>
            \A c \in Calls :
                Sent(c) =>
                    LET h == req[c].headers
                    IN  /\ {"Authorization", "Content-Type", "X-SDK-Version",
                            "X-Custom"} \subseteq DOMAIN h
                        /\ h["Authorization"] = <<"Bearer ", k>>
                        /\ h["Content-Type"] = <<"application/json">>
                        /\ h["X-SDK-Version"][1] = "raven-sdk:"
                        /\ h["X-Custom"] = <<"v">>

C12_Witness ==
    \E c \in Calls :
        /\ Sent(c)
        /\ op[c] = "Emails.send"
        /\ "X-Custom" \in DOMAIN req[c].headers
        /\ req[c].headers["X-Custom"] = <<"v">>
        /\ req[c].headers["Authorization"] = <<"Bearer ", client.key>>

\* how often the query string of the call's request names the parameter
Occurrences(c, name) ==
    Cardinality({i \in DOMAIN req[c].query : req[c].query[i][1] = name})

\* a field of the options is defined: neither undefined nor empty
DefinedField(x) == x.kind # "undefined" /\ ~(x.kind = "str" /\ x.v = "")

\* C13 as stated: the query string of a list operation called with valid
\* options names the owner id exactly once where the operation has one, names
\* each optional filter exactly once when the field is defined in the options
\* (0 and false are defined values), and names no filter whose field is absent.
C13_ListQueryString ==
    \A c \in Calls :
        (Sent(c) /\ op[c] \in ListOpNames /\ input[c].issues = <<>>) =>
            \A i \in DOMAIN ListParams(op[c]) :
                LET q == ListParams(op[c])[i]
                IN  Occurrences(c, q.name) =
                        IF q.test = "always"
                              \/ DefinedField(OptProp(input[c].query, q.field))
                        THEN 1 ELSE 0

WrappedGets == {"ApiKeys.get", "Broadcasts.get", "Domains.get"}

\* the Client returned a success envelope to a wrapped get
WrappedGetSucceeded(c) ==
    ClientReturned(c) /\ op[c] \in WrappedGets /\ IsNull(tenv[c].error)

\* the value under the wrapper key of the Client's data (Absent when the data
\* is no object or has no such key)
Wrapped(c) ==
    IF tenv[c].data.kind = "obj" THEN Prop(tenv[c].data, Op(c).wrapper) ELSE Absent

\* C14 as stated: a wrapped get to which the Client returned
\* {data: {<wrapperKey>: v}, error: null} returns {data: v, error: null};
\* when the data lacks the wrapper key or is null it returns
\* {data: null, error: null}.
C14_WrapperUnwrapped ==
    \A c \in Calls :
        WrappedGetSucceeded(c) =>
            result[c] = [data |-> IF Wrapped(c) = Absent THEN JsNull
                                  ELSE Lift(Wrapped(c)),
                         error |-> JsNull]

\* C14 amended: the wrapped get returns {data: v, error: null} when the value
\* v under the wrapper key is truthy, and {data: null, error: null} when the
\* data is null, lacks the wrapper key, or holds a falsy value (0, "", false,
\* null) under it.
C14_TruthyWrapperUnwrapped ==
    \A c \in Calls :
        WrappedGetSucceeded(c) =>
            result[c] = [data |-> IF TruthyText(Wrapped(c).kind, Wrapped(c).v)
                                  THEN Lift(Wrapped(c)) ELSE JsNull,
                         error |-> JsNull]

C14_Witness ==
    \E c \in Calls :
        /\ WrappedGetSucceeded(c)
        /\ op[c] = "Domains.get"
        /\ RawOf(c) = BodyDomain
        /\ result[c].data = Lift(F("obj", "{id:1}"))
        /\ IsNull(result[c].error)

\* C15 as stated: in every envelope an operation returns, the name of a
\* non-null error is one of the keys of RAVEN_ERROR_CODES.
C15_ErrorNameInClosedSet ==
    \A c \in Calls :
        (Done(c) /\ NonNull(result[c].error)) =>
            /\ Prop(result[c].error, "name").kind = "str"
            /\ Prop(result[c].error, "name").v \in RAVEN_ERROR_CODES

\* C16: for a 2xx response whose body parses as the JSON value v the Client
\* returns {data: v, error: null}; when parsing the body throws, the Client
\* returns {data: null, error: {name: "internal_server_error", message: m}}
\* with m the message of the parse failure, and the call completes.
C16_SuccessBodyParsed ==
    \A c \in Calls :
        (BodyRead(c) /\ ResponseOk(StatusOf(c))) =>
            LET parsed == JSONParse(RawOf(c))
            IN  /\ Done(c)
                /\ parsed.ok => tenv[c] = [data |-> parsed.val, error |-> JsNull]
                /\ ~parsed.ok =>
                      tenv[c] = [data |-> JsNull,
                                 error |-> ErrorInfo("internal_server_error",
                                              Prop(parsed.val, "message").v)]

C16_Witness ==
    \E c \in Calls :
        /\ BodyRead(c)
        /\ resp[c] = <<200, BodyEmpty>>
        /\ tenv[c].error =
              ErrorInfo("internal_server_error", "Unexpected end of JSON input")

RemoveOps == {"ApiKeys.remove", "Domains.remove", "Broadcasts.cancel"}

\* the payload the operation supplies when the Client returned no body
DefaultPayload(name) ==
    IF name = "Broadcasts.cancel" THEN CancelledDefault ELSE SuccessDefault

\* the Client returned a success envelope to a remove or cancel
RemoveSucceeded(c) ==
    ClientReturned(c) /\ op[c] \in RemoveOps /\ IsNull(tenv[c].error)

\* C17 as stated: when the Client returns {data: null, error: null},
\* ApiKeys.remove and Domains.remove return {data: {success: true}, error:
\* null} and Broadcasts.cancel returns {data: {success: true, status:
\* "CANCELLED"}, error: null}; when the Client returns a body, that body is
\* the data returned.
C17_DefaultSuccessPayload ==
    \A c \in Calls :
        RemoveSucceeded(c) =>
            result[c] = [data |-> IF IsNull(tenv[c].data)
                                  THEN DefaultPayload(op[c]) ELSE tenv[c].data,
                         error |-> JsNull]

\* C17 amended: the default payload is returned when the Client's data is
\* null or any other falsy value (0, "", false); a truthy body is returned
\* as data unchanged.
C17_DefaultPayloadUnlessTruthy ==
    \A c \in Calls :
        RemoveSucceeded(c) =>
            result[c] = [data |-> IF Truthy(tenv[c].data)
                                  THEN tenv[c].data ELSE DefaultPayload(op[c]),
                         error |-> JsNull]

C17_Witness ==
    \E c \in Calls :
        /\ RemoveSucceeded(c)
        /\ op[c] = "Broadcasts.cancel"
        /\ resp[c] = <<200, BodyNull>>
        /\ tenv[c] = [data |-> JsNull, error |-> JsNull]
        /\ result[c].data = CancelledDefault

\* the key is non-empty, starts with "rk_" and has at least 10 characters
AcceptableKey(key) ==
    LET chars == KeyChars(key)
    IN  /\ chars # <<>>
        /\ Len(chars) >= 3
        /\ <<chars[1], chars[2], chars[3]>> = <<"r", "k", "_">>
        /\ Len(chars) >= 10

\* the messages an "Invalid API key" error can carry
InvalidKeyMessages ==
    {InvalidKeyMessage(<<"API key cannot be empty",
                         "API key must start with 'rk_'",
                         "API key must be at least 10 characters long">>),
     InvalidKeyMessage(<<"API key must start with 'rk_'",
                         "API key must be at least 10 characters long">>),
     InvalidKeyMessage(<<"API key must start with 'rk_'">>),
     InvalidKeyMessage(<<"API key must be at least 10 characters long">>)}

\* C18: the constructor yields a Client exactly when the key is non-empty,
\* starts with "rk_" and has at least 10 characters; otherwise it throws an
\* Error "Invalid API key", there is no Client, no call starts and no request
\* is issued.  With a Client, the key is the one checked at construction and
\* every request carries it.
C18_KeyCheckedAtConstruction ==
    /\ AcceptableKey(ctor.key) <=> client # NoClient
    /\ AcceptableKey(ctor.key) <=> ctor.thrown = Nothing
    /\ client # NoClient => client.key = ctor.key
    /\ ~AcceptableKey(ctor.key) =>
          /\ ctor.thrown.cls = "Error"
          /\ Prop(ctor.thrown, "message").v \in InvalidKeyMessages
          /\ \A c \in Calls : pc[c] = "idle" /\ ~Sent(c) /\ fetchCalls[c] = 0
    /\ \A c \in Calls :
          Sent(c) => /\ AcceptableKey(ctor.key)
                     /\ req[c].headers["Authorization"] = <<"Bearer ", ctor.key>>

\* the shortest valid key constructs a Client and a request goes out with it
C18_Witness ==
    /\ ctor.key = "rk_1234567"
    /\ client # NoClient
    /\ \E c \in Calls : Sent(c) /\ Done(c)

\* a key one character short leaves no Client behind
C18_WitnessRejected ==
    /\ ctor.key = "rk_123456"
    /\ client = NoClient
    /\ ctor.thrown # Nothing

\* the id is a non-empty string
UsableId(id) == id.kind = "str" /\ id.v # ""

\* C19: Emails.get and Emails.cancel called with an empty or non-string id
\* return {data: null, error: {name: "validation_error", message: "Email ID
\* is required and must be a string"}} and call no Client method; with a
\* non-empty string id they call the Client exactly once, GET /emails/<id>
\* or POST /emails/<id>/cancel, and return its envelope unchanged.
C19_EmailIdChecked ==
    \A c \in Calls :
        op[c] \in {"Emails.get", "Emails.cancel"} =>
            IF UsableId(input[c].id)
            THEN /\ transportCalls[c] = 1
                 /\ req[c].method = (IF op[c] = "Emails.get" THEN "GET" ELSE "POST")
                 /\ req[c].path =
                       "/emails/" \o input[c].id.v
                       \o (IF op[c] = "Emails.get" THEN "" ELSE "/cancel")
                 /\ Done(c) => result[c] = tenv[c]
            ELSE /\ transportCalls[c] = 0
                 /\ ~Sent(c)
                 /\ Done(c)
                 /\ result[c] =
                       [data |-> JsNull,
                        error |-> ErrorInfo("validation_error",
                                     "Email ID is required and must be a string")]

C19_Witness ==
    \E c \in Calls :
        /\ Done(c)
        /\ op[c] = "Emails.cancel"
        /\ input[c].id = JsStr("em_123")
        /\ req[c].path = "/emails/em_123/cancel"
        /\ NonNull(tenv[c].error)
        /\ result[c] = tenv[c]

\* the operations that supply a success payload of their own
RemoveStyleOps == RemoveOps \cup {"Batch.cancel"}

\* the exchange of the call did not end with a 2xx response read to its end
ExchangeFailed(c) ==
    /\ ClientReturned(c)
    /\ \/ net[c] \in {"failed", "aborted"}
       \/ BodyRead(c) /\ ~ResponseOk(StatusOf(c))

\* C20 as stated: a remove or cancel operation whose exchange ended with a
\* non-2xx status (whatever the body), with a network failure or with a
\* timeout returns an envelope with a non-null error and null data.
C20_SuccessOnlyOn2xx ==
    \A c \in Calls :
        (op[c] \in RemoveStyleOps /\ ExchangeFailed(c)) =>
            /\ NonNull(result[c].error)
            /\ IsNull(result[c].data)

\* C21: no resource operation raises or ends with a rejected promise; when
\* the Client method it called threw or rejected, the operation still
\* returns an envelope with null data and a non-null error.
C21_NeverRaises ==
    \A c \in Calls :
        /\ raised[c] = Nothing
        /\ (pc[c] = "done" /\ net[c] \in {"threw", "rejected"}) =>
               /\ result[c] # NoEnvelope
               /\ IsNull(result[c].data)
               /\ ~IsNull(result[c].error)

\* C22: every call of a Client method that has reached fetch eventually
\* returns an envelope, the remote side stalling before the response or
\* while the body is being read included.
C22_EventuallyReturns ==
    \A c \in SeqCalls : (pc[c] \in {"fetching", "reading"}) ~> (pc[c] = "done")

\* (what does hold: a call waiting for the response headers leaves that wait)
C22_HeadersWaitEnds ==
    \A c \in SeqCalls : (pc[c] = "fetching") ~> (pc[c] \in {"reading", "done"})

\* C23: whenever the Client returns an envelope whose error is null, the
\* error of the envelope the resource operation returns is null too.
C23_SuccessStaysSuccess ==
    \A c \in Calls :
        (ClientReturned(c) /\ Op(c) \in ResourceOps /\ IsNull(tenv[c].error))
            => IsNull(result[c].error)

\* what call c's own exchange looks like: its position, timer, signal,
\* network attempt and envelopes
Slot(c) == <<pc[c], timer[c], aborted[c], net[c], resp[c], thrown[c], tenv[c],
             result[c], req[c]>>

\* the envelope that call c's own network outcome and timer determine
OwnEnvelope(c) ==
    CASE net[c] = "aborted" -> TimeoutEnvelope(client.timeout)
      [] net[c] = "read" -> ResponseEnvelope(resp[c][1], resp[c][2], client.timeout)
      [] net[c] = "failed" -> CatchEnvelope(thrown[c], client.timeout)
      [] OTHER -> NoEnvelope

\* C24: with two calls in flight on one Client, the step in which one call's
\* timer fires changes nothing of the other call, and the envelope each call
\* returns is the one its own network outcome and its own timer determine
\* (aborted only when its own timer has fired).
C24_TimerAbortsOwnCallOnly ==
    [][\A c \in Calls :
          /\ (timer[c] = "armed" /\ timer'[c] = "fired")
                => \A d \in Calls \ {c} : Slot(d)' = Slot(d)
          /\ ClientReturned(c)'
                => /\ tenv'[c] = OwnEnvelope(c)'
                   /\ (net'[c] = "aborted" => timer'[c] = "fired")]_vars

\* one call was ended by its own timer; the other has its response headers,
\* its signal not aborted and its timer cleared
C24_Witness ==
    /\ net["c1"] = "aborted" /\ timer["c1"] = "fired"
    /\ tenv["c1"] = TimeoutEnvelope(client.timeout)
    /\ pc["c2"] = "reading" /\ ~aborted["c2"] /\ timer["c2"] = "cleared"

\* the Client is called only once every template of the input was rendered
C25_DispatchAfterRender ==
    \A c \in Calls :
        (Op(c) \in ResourceOps /\ transportCalls[c] > 0) =>
            /\ pending[c] = {}
            /\ renderErr[c] = Nothing
            /\ renderCalls[c] = Cardinality(TemplatesOf(Op(c), input[c]))

\* C25: the steps of an operation run in the order validate, render,
\* dispatch: the renderer is never called for input that fails the
\* operation's validation rules, and the Client is never called before
\* rendering has completed successfully.
C25_ValidateRenderDispatch ==
    /\ \A c \in Calls :
          (Op(c) \in ResourceOps /\ FailsValidation(Op(c), input[c])) =>
              renderCalls[c] = 0
    /\ C25_DispatchAfterRender

\* C26: no step of any call, in any interleaving, changes the Client's key,
\* base URL, default headers or timeout: they stay what the constructor made
\* of its arguments, and every request goes to that base URL with exactly
\* those headers (the key in Authorization) under that timeout.
C26_ClientNeverChanges ==
    [][/\ client' = client
       /\ ctor' = ctor
       /\ \E o \in ClientOptionsGiven : client' = ClientOf(ctor'.key, o)
       /\ \A c \in Calls :
             /\ Sent(c)' =>
                   /\ req'[c].headers = client.headers
                   /\ req'[c].headers["Authorization"] = <<"Bearer ", client.key>>
                   /\ req'[c].url = client.baseUrl \o req'[c].path
             /\ net'[c] = "aborted" =>
                   tenv'[c] = TimeoutEnvelope(client.timeout)]_vars

\* on a Client built with its own base URL, timeout and default headers, one
\* call made with per-call headers has timed out and another has returned
C26_Witness ==
    /\ client.timeout = 2500
    /\ Sent("c1") /\ input["c1"].headers # NoHeaders /\ net["c1"] = "aborted"
    /\ Sent("c2") /\ Done("c2") /\ net["c2"] = "read"

\* the name of the error of the envelope the Client returned to call c
ErrorName(c) == Prop(tenv[c].error, "name")

\* C27 as stated: a Client method returns an error named request_timeout
\* only if the call's own timer fired while its fetch was pending; a network
\* call that fails otherwise gives internal_server_error.
C27_TimeoutOnlyByOwnTimer ==
    \A c \in Calls :
        ClientReturned(c) =>
            /\ ErrorName(c) = F("str", "request_timeout") =>
                   (timer[c] = "fired" /\ aborted[c] /\ net[c] = "aborted")
            /\ net[c] = "failed" => ErrorName(c) = F("str", "internal_server_error")

\* C27 amended: the same for every call that did not read a response body;
\* the error a non-2xx response carries in its body is returned as it is,
\* whatever its name.
C27_TimeoutOnlyByOwnTimerUnlessAnswered ==
    \A c \in Calls :
        ClientReturned(c) =>
            /\ (ErrorName(c) = F("str", "request_timeout") /\ net[c] # "read") =>
                   (timer[c] = "fired" /\ aborted[c] /\ net[c] = "aborted")
            /\ net[c] = "failed" => ErrorName(c) = F("str", "internal_server_error")
            /\ (net[c] = "read" /\ ~ResponseOk(resp[c][1])
                    /\ resp[c][2] = BodyTimeout) =>
                   ErrorName(c) = F("str", "request_timeout")

\* one call's fetch rejected with a DOMException that is no AbortError, its
\* timer still armed, and gave internal_server_error; the other call was
\* ended by its own timer
C27_Witness ==
    /\ ClientReturned("c1") /\ thrown["c1"] = TimeoutDomError
    /\ timer["c1"] = "armed"
    /\ ErrorName("c1") = F("str", "internal_server_error")
    /\ ClientReturned("c2") /\ net["c2"] = "aborted"
    /\ tenv["c2"] = TimeoutEnvelope(client.timeout)

RECURSIVE MessagesUpTo(_, _)
\* the first n messages of msgs, each once, in order, ", " between them
MessagesUpTo(msgs, n) ==
    IF n = 1 THEN msgs[1]
    ELSE MessagesUpTo(msgs, n - 1) \o ", " \o msgs[n]

\* C28: when the validation of an operation's input reports the failures
\* msgs, the operation returns {data: null, error: {name: "validation_error",
\* message: m}} with m the messages of msgs in their order, each once,
\* joined with ", "; one failure gives exactly its message.
C28_MessagesJoinedInOrder ==
    \A c \in Calls :
        (Done(c) /\ Op(c).validates = "zod" /\ input[c].issues # <<>>) =>
            LET msgs == input[c].issues
            IN  /\ IsNull(result[c].data)
                /\ result[c].error =
                      ErrorInfo("validation_error", MessagesUpTo(msgs, Len(msgs)))
                /\ Len(msgs) = 1 =>
                      Prop(result[c].error, "message") = F("str", msgs[1])

\* an operation whose validation reported two failures has returned
C28_Witness ==
    \E c \in Calls :
        /\ Done(c) /\ Op(c).validates = "zod" /\ Len(input[c].issues) = 2
        /\ Prop(result[c].error, "name") = F("str", "validation_error")
        /\ Prop(result[c].error, "message").v =
              IssueMessages[1] \o ", " \o IssueMessages[2]
        /\ transportCalls[c] = 0

\* C29: whenever a Client method has returned, on whatever path, the timer
\* of that call is no longer armed: it has fired or it was cleared.
C29_NoTimerLeftArmed ==
    \A c \in Calls : ClientReturned(c) => timer[c] \in {"fired", "cleared"}

\* C30: no envelope the Client returned, and no envelope a resource
\* operation built on it returned, has data and error both non-null.
C30_NeverBothNonNull ==
    \A c \in Calls :
        /\ ClientReturned(c) => (IsNull(tenv[c].data) \/ IsNull(tenv[c].error))
        /\ (Done(c) /\ raised[c] = Nothing) =>
              (IsNull(result[c].data) \/ IsNull(result[c].error))

\* Emails.sendQueued, which hands on both fields of the Client's envelope,
\* has returned the body of a 200 response as data with error null
C30_Witness ==
    \E c \in Calls :
        /\ Done(c)
        /\ op[c] = "Emails.sendQueued"
        /\ resp[c] = <<200, BodyQueued>>
        /\ result[c] = Envelope(JSONParse(BodyQueued).val, JsNull)
        /\ tenv[c] = result[c]

====
